---- MODULE Spec2Model ----
(***************************************************************************)
(* The step-sequencer drum machine of src/drum-machine/main.ts (and its    *)
(* earlier single-file form, src/unnamed/part_001), with the audio shim    *)
(* of src/unnamed/part_000.                                                *)
(*                                                                         *)
(* One event loop runs three kinds of callbacks to completion: the         *)
(* setInterval tick (nextStep), the canvas click listener and the          *)
(* requestAnimationFrame draw.  clear() is a fourth operation on the same  *)
(* state.  Every action below is one whole callback.                       *)
(*                                                                         *)
(* Coordinates are kept in HALF PIXELS so that BUTTON_SIZE / 2 = 19.5 and  *)
(* BUTTON_SIZE * 1.5 = 58.5 stay integers: a pixel value v is held as 2v.  *)
(* Arrays are TLA+ sequences; the source's index i is position i + 1.      *)
(***************************************************************************)
EXTENDS Integers, Sequences, FiniteSets, TLC

VARIABLES
    step,       \* SEQUENCER_STATE.step
    tracks,     \* SEQUENCER_STATE.tracks
    paused,     \* SEQUENCER_STATE.paused (part_001: the global `paused`)
    audio,      \* AUDIO_CONTEXT: "running", or "undefined" when the shim built none
    program,    \* which script runs: "main" (main.ts) or "part_001"
    lastOp,     \* history: the callback that ran last
    painted,    \* history: the rectangles the last callback filled on RENDERING_CONTEXT
    fired,      \* history: rows whose playSound the last callback invoked, in order
    threw,      \* history: the last callback ended in an uncaught exception
    started,    \* history: the sound instances the last callback started on AUDIO_CONTEXT
    runStart,   \* history: step before the current run of consecutive running ticks
    runLen,     \* history: length of that run
    lastClick,  \* history: point of the latest click since the latest clear(), or NoPoint
    prevGrid,   \* history: every track's steps as they were before the latest click or clear()
    pairKind,   \* history: how the last callback, a click, repeats the click before it
    held,       \* history: the step at the latest pause, until the first tick after the resume
    playClicked, \* history: the play bar has been clicked since startup
    ticksRun,   \* history: the running ticks since startup, counted up to MaxTicks
    sounds,     \* audio engine: the sound instances that have not reached their stop time
    probe,      \* hit test: a point, and what the click listener's tests say of it
    unlock      \* audio shim: the context's state and the touchend listener `resume`

\* The sequencer with its history, and the audio engine it plays into.
seqVars == <<step, tracks, paused, audio, program, lastOp, painted, fired, threw,
             started, runStart, runLen, lastClick, prevGrid, pairKind, held, playClicked,
             ticksRun>>
engineVars == <<sounds>>
probeVars == <<probe>>
unlockVars == <<unlock>>
vars == <<seqVars, engineVars, probeVars, unlockVars>>

----------------------------------------------------------------------------
(* Program constants *)

BUTTON_SIZE == 39
STEP_COUNT == 8
TEMPO == 300
LEGACY_TEMPO == 120

(* Bound of the model: the longest run of consecutive running ticks that is
   counted by runLen. *)
MaxTicks == 9

----------------------------------------------------------------------------
(* Sound synthesis *)

\* createSineWave: the first use of the audio context by a trigger.
\* audioContext.createOscillator() on an undefined context is a TypeError.
createSineWave(audioContext) ==
    IF audioContext = "undefined" THEN "TypeError" ELSE "oscillator"

\* The closure note(audioContext, frequency) returns, invoked.
note(audioContext, frequency) ==
    IF createSineWave(audioContext) = "TypeError" THEN "TypeError" ELSE "played"

\* The closure kick(audioContext) returns, invoked.
kick(audioContext) ==
    IF createSineWave(audioContext) = "TypeError" THEN "TypeError" ELSE "played"

\* The sound instance one invocation of a track's trigger builds: a sine
\* oscillator started now and stopped `duration` seconds on, at `frequency`
\* (the kick ramps it down from 160), chained through its own amplifier that
\* ramps from `volume` percent down to almost 0, into the destination.  `left`
\* is the time to its stop, in milliseconds.
instance(track, row) ==
    IF track.voice = "kick"
    THEN [row |-> row, frequency |-> 160, ramp |-> TRUE, volume |-> 40, left |-> 2000]
    ELSE [row |-> row, frequency |-> track.frequency, ramp |-> FALSE,
          volume |-> 20, left |-> 1000]

\* track.playSound(): the outcome of invoking a track's trigger.
playSound(track, audioContext) ==
    IF track.voice = "kick" THEN kick(audioContext)
    ELSE note(audioContext, track.frequency)

\* The period of the setInterval timer, in milliseconds.
tempo == IF program = "main" THEN TEMPO ELSE LEGACY_TEMPO

\* The audio engine `ms` milliseconds on: an instance whose stop time has come
\* has ended, the others are that much nearer to theirs.
age(live, ms) ==
    { [i EXCEPT !.left = i.left - ms] : i \in { j \in live : j.left > ms } }

\* Faulty variant of chain: a new instance replaces the live ones of its track.
chainMonophonic(live, new) ==
    { i \in live : \A n \in new : n.row # i.row } \cup new

\* chain([sineWave, amplifier, audioContext.destination]) for each new
\* instance: it plays beside everything already playing.
chain(live, new) == live \cup new

----------------------------------------------------------------------------
(* Grid model *)

createTrack(color, voice, frequency) ==
    [steps |-> [i \in 1..STEP_COUNT |-> FALSE],
     color |-> color, voice |-> voice, frequency |-> frequency]

InitialTracks ==
    << createTrack("gold", "note", 880),
       createTrack("gold", "note", 659),
       createTrack("gold", "note", 587),
       createTrack("gold", "note", 523),
       createTrack("gold", "note", 440),
       createTrack("dodgerblue", "kick", 160) >>

\* The steps of every track, without the constant colour and voice.
Grid(ts) == [r \in 1..Len(ts) |-> ts[r].steps]

\* Faulty variant of clear(): the steps are emptied, not mapped to false.
clearTracksEmptied(ts) ==
    [r \in 1..Len(ts) |-> [ts[r] EXCEPT !.steps = << >>]]

\* Faulty variant of clear(): the mapped array is not assigned back.
clearTracksNotAssigned(ts) == ts

\* clear(): track.steps = track.steps.map(() => false) for every track.
clearTracks(ts) ==
    [r \in 1..Len(ts) |->
        [ts[r] EXCEPT !.steps = [c \in 1..Len(ts[r].steps) |-> FALSE]]]

----------------------------------------------------------------------------
(* Geometry, in half pixels *)

\* Faulty variant of getButtonPosition: buttons one size apart, without the gap.
getButtonPositionNoGap(column, row) ==
    [x |-> BUTTON_SIZE + column * BUTTON_SIZE * 2,
     y |-> BUTTON_SIZE + row * BUTTON_SIZE * 2]

\* getButtonPosition(column, row): the top-left corner of a button.
getButtonPosition(column, row) ==
    [x |-> BUTTON_SIZE + column * BUTTON_SIZE * 3,
     y |-> BUTTON_SIZE + row * BUTTON_SIZE * 3]

\* Faulty variant of pointWithinButton: the edges are excluded.
pointStrictlyWithinButton(point, buttonPoint) ==
    ~(\/ point.x <= buttonPoint.x
      \/ point.y <= buttonPoint.y
      \/ point.x >= buttonPoint.x + 2 * BUTTON_SIZE
      \/ point.y >= buttonPoint.y + 2 * BUTTON_SIZE)

\* Faulty variant of pointWithinButton: the box is as wide as the spacing.
pointWithinButtonWide(point, buttonPoint) ==
    ~(\/ point.x < buttonPoint.x
      \/ point.y < buttonPoint.y
      \/ point.x > buttonPoint.x + 3 * BUTTON_SIZE
      \/ point.y > buttonPoint.y + 3 * BUTTON_SIZE)

\* pointWithinButton(point, buttonPoint)
pointWithinButton(point, buttonPoint) ==
    ~(\/ point.x < buttonPoint.x
      \/ point.y < buttonPoint.y
      \/ point.x > buttonPoint.x + 2 * BUTTON_SIZE
      \/ point.y > buttonPoint.y + 2 * BUTTON_SIZE)

\* Faulty variant of the play-bar test: the threshold itself counts.
offBottomInclusive(point, ts) ==
    point.y >= BUTTON_SIZE * Len(ts) * 3 + BUTTON_SIZE

\* Faulty variant of the play-bar test: one track row too high.
offBottomOneRowEarly(point, ts) ==
    point.y > BUTTON_SIZE * (Len(ts) - 1) * 3 + BUTTON_SIZE

\* The click listener's first test: the point is off the bottom of the tracks.
offBottom(point, ts) ==
    point.y > BUTTON_SIZE * Len(ts) * 3 + BUTTON_SIZE

----------------------------------------------------------------------------
(* Clock / stepper *)

\* The modulus of the step increment: STEP_COUNT in main.ts,
\* SEQUENCER_DATA.tracks[0].steps.length in part_001.
stepModulus(ts) ==
    IF program = "main" THEN STEP_COUNT ELSE Len(ts[1].steps)

\* Faulty variants of the increment: no wrap, and a modulus one too large.
advanceNoWrap(s, modulus) == s + 1
advanceWrapLate(s, modulus) == (s + 1) % (modulus + 1)

\* (step + 1) % modulus
advance(s, modulus) == (s + 1) % modulus

\* track.steps[s] as a filter predicate: an index outside the array reads
\* undefined, which is falsy.
stepOn(track, s) == (s + 1) \in DOMAIN track.steps /\ track.steps[s + 1]

\* tracks.filter(track => track.steps[step]): the rows kept, in array order.
onTracks(ts, s) ==
    SelectSeq([i \in 1..Len(ts) |-> i - 1], LAMBDA row : stepOn(ts[row + 1], s))

\* .forEach(track => track.playSound()) over the rows kept: the rows invoked, in
\* order, and whether an invocation threw (which ends the loop and the callback).
RECURSIVE forEachPlay(_, _, _)
forEachPlay(rows, ts, audioContext) ==
    IF rows = << >> THEN [fired |-> << >>, threw |-> FALSE]
    ELSE IF playSound(ts[Head(rows) + 1], audioContext) = "TypeError"
         THEN [fired |-> << Head(rows) >>, threw |-> TRUE]
         ELSE LET rest == forEachPlay(Tail(rows), ts, audioContext)
              IN  [fired |-> << Head(rows) >> \o rest.fired, threw |-> rest.threw]

\* The instances the invoked triggers built: one for each that did not throw.
startedBy(rows, ts, audioContext) ==
    { instance(ts[rows[i] + 1], rows[i]) :
        i \in { j \in DOMAIN rows : playSound(ts[rows[j] + 1], audioContext) = "played" } }

\* Faulty variant of nextStep: the triggers run before the step is incremented.
nextStepPlaysBeforeIncrement(s, ts, isPaused, audioContext) ==
    IF isPaused
    THEN [step |-> s, fired |-> << >>, threw |-> FALSE, started |-> {}]
    ELSE LET s2 == advance(s, stepModulus(ts))
             played == forEachPlay(onTracks(ts, s), ts, audioContext)
         IN  [step |-> s2, fired |-> played.fired, threw |-> played.threw,
              started |-> startedBy(played.fired, ts, audioContext)]

\* Faulty variant of nextStep: the paused test is missing.
nextStepIgnoringPause(s, ts, isPaused, audioContext) ==
    LET s2 == advance(s, stepModulus(ts))
        played == forEachPlay(onTracks(ts, s2), ts, audioContext)
    IN  [step |-> s2, fired |-> played.fired, threw |-> played.threw,
         started |-> startedBy(played.fired, ts, audioContext)]

\* nextStep(sequencerState): the step and the trigger invocations it leaves.
\* The step is assigned before the triggers run, so it stays advanced when one
\* of them throws.
nextStep(s, ts, isPaused, audioContext) ==
    IF isPaused
    THEN [step |-> s, fired |-> << >>, threw |-> FALSE, started |-> {}]
    ELSE LET s2 == advance(s, stepModulus(ts))
             played == forEachPlay(onTracks(ts, s2), ts, audioContext)
         IN  [step |-> s2, fired |-> played.fired, threw |-> played.threw,
              started |-> startedBy(played.fired, ts, audioContext)]

----------------------------------------------------------------------------
(* Renderer *)

\* drawButton(ctx, column, row, color): one fillRect at the button's position.
drawButton(column, row, color) ==
    [x |-> getButtonPosition(column, row).x,
     y |-> getButtonPosition(column, row).y,
     size |-> 2 * BUTTON_SIZE, color |-> color]

\* drawTracks(ctx, data): one button per track and column.
drawTracks(ts) ==
    { drawButton(c - 1, r - 1, IF ts[r].steps[c] THEN ts[r].color ELSE "lightgray") :
        r \in 1..Len(ts), c \in 1..STEP_COUNT }

\* What draw() fills after clearRect: the tracks, then the current-step square.
drawn(ts, s) == drawTracks(ts) \cup { drawButton(s, Len(ts), "deeppink") }

----------------------------------------------------------------------------
(* Input handler *)

\* Faulty variant of the click listener's loops: the step is set on, not negated.
toggleWithinSetsOn(ts, point) ==
    [r \in 1..Len(ts) |->
        [ts[r] EXCEPT !.steps =
            [c \in 1..Len(ts[r].steps) |->
                IF pointWithinButton(point, getButtonPosition(c - 1, r - 1))
                THEN TRUE ELSE ts[r].steps[c]]]]

\* The forEach/forEach of the click listener: every button the point is within
\* has its step negated.
toggleWithin(ts, point) ==
    [r \in 1..Len(ts) |->
        [ts[r] EXCEPT !.steps =
            [c \in 1..Len(ts[r].steps) |->
                IF pointWithinButton(point, getButtonPosition(c - 1, r - 1))
                THEN ~ts[r].steps[c] ELSE ts[r].steps[c]]]]

\* Click coordinates tried, in half pixels (e.offsetX, e.offsetY doubled).
Px(x, y) == [x |-> 2 * x, y |-> 2 * y]
NoPoint == [x |-> -1, y |-> -1]
ClickPoints ==
    { Px(30, 30),               \* inside button (column 0, row 0)
      Px(19, 19),               \* half a pixel outside its corner
      [x |-> 39, y |-> 39],     \* (19.5, 19.5): on its top-left corner
      [x |-> 117, y |-> 117],   \* (58.5, 58.5): on its bottom-right corner
      [x |-> 118, y |-> 60],    \* (59, 30): just right of it, in the gap
      Px(100, 100),             \* inside button (column 1, row 1)
      Px(30, 330),              \* inside button (column 0, row 5)
      [x |-> 60, y |-> 741],    \* (30, 370.5): on the play-bar threshold
      Px(30, 371) }             \* below the threshold: the play bar

----------------------------------------------------------------------------
(* The state machine *)

\* The shim as the sequencer sees it: no touchend listener under study.
NoUnlock == [state |-> "none", installed |-> FALSE, timeouts |-> 0, resuming |-> FALSE,
             lastOp |-> "none", observed |-> "none", kept |-> FALSE, removed |-> FALSE]

\* No point under test.
NoProbe == [point |-> NoPoint, tested |-> FALSE, within |-> {}, offBottom |-> FALSE]

\* No pause has happened, or a callback has run since the resume.
NoStep == -1

\* The sequencer as constructed, after the first, synchronous draw.
InitSequencer ==
    /\ program \in {"main", "part_001"}
    /\ audio \in {"running", "undefined"}
    /\ step = 0
    /\ tracks = InitialTracks
    /\ paused = (program = "main")
    /\ lastOp = "draw"
    /\ painted = drawn(InitialTracks, 0)
    /\ fired = << >>
    /\ threw = FALSE
    /\ started = {}
    /\ runStart = 0
    /\ runLen = 0
    /\ lastClick = NoPoint
    /\ prevGrid = Grid(InitialTracks)
    /\ pairKind = "none"
    /\ held = NoStep
    /\ playClicked = FALSE
    /\ ticksRun = 0
    /\ sounds = {}

Init == InitSequencer /\ probe = NoProbe /\ unlock = NoUnlock

\* The setInterval callback: nextStep(SEQUENCER_STATE).
Tick ==
    /\ paused \/ runLen < MaxTicks
    /\ lastOp' = "tick"
    /\ painted' = {}
    /\ pairKind' = "none"
    /\ LET after == nextStep(step, tracks, paused, audio)
       IN  /\ step' = after.step
           /\ fired' = after.fired
           /\ threw' = after.threw
           /\ started' = after.started
    /\ IF paused
       THEN runStart' = step /\ runLen' = 0 /\ held' = held /\ ticksRun' = ticksRun
       ELSE /\ runStart' = runStart /\ runLen' = runLen + 1
            /\ held' = IF runLen = 0 THEN held ELSE NoStep
            /\ ticksRun' = IF ticksRun < MaxTicks THEN ticksRun + 1 ELSE ticksRun
    /\ UNCHANGED <<tracks, paused, audio, program, lastClick, prevGrid, playClicked>>

\* Faulty variant of the click listener: resuming restarts the loop at step 0.
ClickResumeRestarts(point) ==
    /\ lastOp' = "click"
    /\ painted' = {}
    /\ fired' = << >>
    /\ threw' = FALSE
    /\ started' = {}
    /\ runStart' = step
    /\ runLen' = 0
    /\ lastClick' = point
    /\ prevGrid' = Grid(tracks)
    /\ pairKind' = IF lastClick # point THEN "none"
                   ELSE IF lastOp = "click" THEN "adjacent" ELSE "interleaved"
    /\ playClicked' = (playClicked \/ offBottom(point, tracks))
    /\ IF offBottom(point, tracks)
       THEN /\ paused' = ~paused
            /\ held' = IF paused THEN held ELSE step
            /\ UNCHANGED tracks
       ELSE /\ tracks' = toggleWithin(tracks, point)
            /\ held' = IF paused THEN held ELSE NoStep
            /\ UNCHANGED paused
    /\ step' = IF offBottom(point, tracks) /\ paused THEN 0 ELSE step
    /\ UNCHANGED <<audio, program, ticksRun>>

\* The canvas click listener, for a click at `point`.
Click(point) ==
    /\ lastOp' = "click"
    /\ painted' = {}
    /\ fired' = << >>
    /\ threw' = FALSE
    /\ started' = {}
    /\ runStart' = step
    /\ runLen' = 0
    /\ lastClick' = point
    /\ prevGrid' = Grid(tracks)
    /\ pairKind' = IF lastClick # point THEN "none"
                   ELSE IF lastOp = "click" THEN "adjacent" ELSE "interleaved"
    /\ playClicked' = (playClicked \/ offBottom(point, tracks))
    /\ IF offBottom(point, tracks)
       THEN /\ paused' = ~paused
            /\ held' = IF paused THEN held ELSE step
            /\ UNCHANGED tracks
       ELSE /\ tracks' = toggleWithin(tracks, point)
            /\ held' = IF paused THEN held ELSE NoStep
            /\ UNCHANGED paused
    /\ UNCHANGED <<step, audio, program, ticksRun>>

\* Faulty variant of draw: it also moves the playhead on.
DrawMovesPlayhead ==
    /\ lastOp' = "draw"
    /\ painted' = drawn(tracks, step)
    /\ step' = advance(step, stepModulus(tracks))
    /\ fired' = << >>
    /\ threw' = FALSE
    /\ started' = {}
    /\ runStart' = step'
    /\ runLen' = 0
    /\ pairKind' = "none"
    /\ held' = IF paused THEN held ELSE NoStep
    /\ UNCHANGED <<tracks, paused, audio, program, lastClick, prevGrid, playClicked, ticksRun>>

\* The requestAnimationFrame callback: draw(SEQUENCER_STATE).
Draw ==
    /\ lastOp' = "draw"
    /\ painted' = drawn(tracks, step)
    /\ fired' = << >>
    /\ threw' = FALSE
    /\ started' = {}
    /\ runStart' = step
    /\ runLen' = 0
    /\ pairKind' = "none"
    /\ held' = IF paused THEN held ELSE NoStep
    /\ UNCHANGED <<step, tracks, paused, audio, program, lastClick, prevGrid, playClicked,
                   ticksRun>>

\* clear(SEQUENCER_STATE)
Clear ==
    /\ lastOp' = "clear"
    /\ painted' = {}
    /\ tracks' = clearTracks(tracks)
    /\ fired' = << >>
    /\ threw' = FALSE
    /\ started' = {}
    /\ runStart' = step
    /\ runLen' = 0
    /\ lastClick' = NoPoint
    /\ prevGrid' = Grid(tracks)
    /\ pairKind' = "none"
    /\ held' = IF paused THEN held ELSE NoStep
    /\ UNCHANGED <<step, paused, audio, program, playClicked, ticksRun>>

\* The sequencer alone: the callbacks in any order, at any click point.
Next ==
    /\ \/ Tick
       \/ \E point \in ClickPoints : Click(point)
       \/ Draw
       \/ Clear
    /\ UNCHANGED <<engineVars, probeVars, unlockVars>>

Spec == Init /\ [][Next]_vars

\* The sequencer of main.ts playing into the audio engine.  The timer fires
\* every TEMPO milliseconds: by each tick the live instances are that much
\* older, and the instances the tick starts are chained in beside them.  The
\* other callbacks hold no reference to an instance.
SoundClickPoints ==
    { Px(30, 30),               \* button (column 0, row 0)
      Px(100, 30),              \* button (column 1, row 0)
      Px(30, 330),              \* button (column 0, row 5), the kick
      Px(30, 371) }             \* the play bar

InitSound == Init /\ program = "main"

NextSound ==
    /\ \/ Tick /\ sounds' = chain(age(sounds, tempo), started')
       \/ (\E point \in SoundClickPoints : Click(point)) /\ UNCHANGED engineVars
       \/ Draw /\ UNCHANGED engineVars
       \/ Clear /\ UNCHANGED engineVars
    /\ UNCHANGED <<probeVars, unlockVars>>

SpecSound == InitSound /\ [][NextSound]_vars

\* The click listener's geometry on its own: a point from a lattice laid on
\* every edge of every button, of the current-step row and of the play-bar
\* threshold (each edge, half a pixel either side of it, and the middle), first
\* put to the listener's tests and then clicked.
EdgeOffsets == {-1, 0, 1, BUTTON_SIZE, 2 * BUTTON_SIZE - 1, 2 * BUTTON_SIZE, 2 * BUTTON_SIZE + 1}
ProbeXs == { BUTTON_SIZE + 3 * BUTTON_SIZE * k + d : k \in 0..(STEP_COUNT - 1), d \in EdgeOffsets }
ProbeYs == { BUTTON_SIZE + 3 * BUTTON_SIZE * k + d : k \in 0..Len(InitialTracks), d \in EdgeOffsets }
ProbePoints == { [x |-> px, y |-> py] : px \in ProbeXs, py \in ProbeYs }

\* The buttons <<column, row>> the listener's loops find the point within.
buttonsWithin(point, ts) ==
    { b \in (0..(STEP_COUNT - 1)) \X (0..(Len(ts) - 1)) :
        pointWithinButton(point, getButtonPosition(b[1], b[2])) }

InitProbe ==
    /\ InitSequencer /\ program = "main" /\ audio = "running"
    /\ probe \in { [NoProbe EXCEPT !.point = p] : p \in ProbePoints }
    /\ unlock = NoUnlock

\* The listener's two tests applied to the point.
HitTest ==
    /\ ~probe.tested
    /\ probe' = [probe EXCEPT !.tested = TRUE,
                               !.within = buttonsWithin(probe.point, tracks),
                               !.offBottom = offBottom(probe.point, tracks)]
    /\ UNCHANGED <<seqVars, engineVars, unlockVars>>

\* The listener run for a click at the point.
ProbeClick ==
    /\ probe.tested
    /\ Click(probe.point)
    /\ UNCHANGED <<engineVars, probeVars, unlockVars>>

NextProbe == HitTest \/ ProbeClick

SpecProbe == InitProbe /\ [][NextProbe]_vars

\* The audio shim's unlock (part_000).  AUDIO_CONTEXT.state is the browser's:
\* "suspended" until a resume() takes effect, "running" after it, "interrupted"
\* when the system takes the audio away, and on iOS 8 Safari not there at all.
\* `resume` is the touchend listener; each run of it leaves one setTimeout
\* check behind.  MaxTimeouts bounds the checks waiting to run.
MaxTimeouts == 2
ContextStates == {"suspended", "running", "interrupted", "undefined"}

\* Faulty variant of the check: it removes the listener whatever the state.
checkRemovesAlways(state) == TRUE

\* if (AUDIO_CONTEXT.state === 'running') removeEventListener(...)
checkRemoves(state) == state = "running"

\* if (usingWebAudio && AUDIO_CONTEXT.state === 'suspended') addEventListener(...)
installs(usingWebAudio, state) == usingWebAudio /\ state = "suspended"

\* The shim has run: the context is built (or not), and the listener is
\* installed if the context is there and suspended.
InitUnlock ==
    /\ InitSequencer /\ probe = NoProbe
    /\ \E state \in ContextStates \ {"interrupted"} :
         unlock = [state |-> IF audio = "undefined" THEN "none" ELSE state,
                   installed |-> installs(audio # "undefined", state),
                   timeouts |-> 0, resuming |-> FALSE,
                   lastOp |-> "none", observed |-> "none",
                   kept |-> FALSE, removed |-> FALSE]

\* A touchend on document.body.  With the listener installed `resume` runs:
\* AUDIO_CONTEXT.resume() is called and a check is queued; otherwise nobody
\* listens.
Touchend ==
    /\ unlock.timeouts < MaxTimeouts
    /\ unlock' = IF unlock.installed
                 THEN [unlock EXCEPT !.resuming = (unlock.state # "running"),
                                     !.timeouts = unlock.timeouts + 1,
                                     !.lastOp = "resume", !.observed = "none"]
                 ELSE [unlock EXCEPT !.lastOp = "touchend", !.observed = "none"]
    /\ UNCHANGED <<seqVars, engineVars, probeVars>>

\* The browser completes a resume() that was called: the context runs.
Resumed ==
    /\ unlock.resuming
    /\ unlock' = [unlock EXCEPT !.state = "running", !.resuming = FALSE,
                                !.lastOp = "resumed", !.observed = "none"]
    /\ UNCHANGED <<seqVars, engineVars, probeVars>>

\* The browser drops a resume() that was called: the state stays as it was.
NotResumed ==
    /\ unlock.resuming
    /\ unlock' = [unlock EXCEPT !.resuming = FALSE,
                                !.lastOp = "notResumed", !.observed = "none"]
    /\ UNCHANGED <<seqVars, engineVars, probeVars>>

\* The system interrupts a running context.
Interrupt ==
    /\ unlock.state = "running"
    /\ unlock' = [unlock EXCEPT !.state = "interrupted",
                                !.lastOp = "interrupt", !.observed = "none"]
    /\ UNCHANGED <<seqVars, engineVars, probeVars>>

\* The setTimeout(..., 0) callback of `resume`: the check.
Check ==
    /\ unlock.timeouts > 0
    /\ unlock' = [unlock EXCEPT !.timeouts = unlock.timeouts - 1,
                                !.installed = unlock.installed /\ ~checkRemoves(unlock.state),
                                !.lastOp = "check", !.observed = unlock.state,
                                !.kept = unlock.kept \/
                                    (unlock.installed /\ ~checkRemoves(unlock.state)),
                                !.removed = unlock.removed \/
                                    (unlock.installed /\ checkRemoves(unlock.state))]
    /\ UNCHANGED <<seqVars, engineVars, probeVars>>

\* The shim beside the sequencer's play bar and timer.
NextUnlock ==
    \/ Touchend
    \/ Resumed
    \/ NotResumed
    \/ Interrupt
    \/ Check
    \/ (Tick \/ Click(Px(30, 371))) /\ UNCHANGED <<engineVars, probeVars, unlockVars>>

SpecUnlock == InitUnlock /\ [][NextUnlock]_vars

\* nextStep and draw take the sequencer state as their argument.  Here they
\* are given a state object whose step lies outside 0..STEP_COUNT-1, as a
\* defect elsewhere would leave it, in main.ts with the audio context built:
\* one step below the range, one past it, two past it.
DefectSteps == {-1, STEP_COUNT, STEP_COUNT + 1}
DefectClickPoints == { Px(30, 30), Px(100, 30), Px(100, 100), Px(30, 371) }

InitDefect ==
    /\ program = "main"
    /\ audio = "running"
    /\ step \in DefectSteps
    /\ tracks = InitialTracks
    /\ paused = TRUE
    /\ lastOp = "none"
    /\ painted = {}
    /\ fired = << >>
    /\ threw = FALSE
    /\ started = {}
    /\ runStart = step
    /\ runLen = 0
    /\ lastClick = NoPoint
    /\ prevGrid = Grid(InitialTracks)
    /\ pairKind = "none"
    /\ held = NoStep
    /\ playClicked = FALSE
    /\ ticksRun = 0
    /\ sounds = {}
    /\ probe = NoProbe
    /\ unlock = NoUnlock

NextDefect ==
    /\ \/ Tick
       \/ \E point \in DefectClickPoints : Click(point)
       \/ Draw
    /\ UNCHANGED <<engineVars, probeVars, unlockVars>>

SpecDefect == InitDefect /\ [][NextDefect]_vars

----------------------------------------------------------------------------
(* Properties *)

\* What the properties read of the sequencer state.
SequencerState == <<step, Grid(tracks), paused>>

\* C1: in every reachable state 0 <= currentStep < stepCount.
C1_StepInRange == 0 <= step /\ step < STEP_COUNT

\* C1 witness: a running tick has wrapped the last step round to the first.
C1_Witness ==
    lastOp = "tick" /\ ~paused /\ runLen >= 1 /\ step = 0 /\ runStart # 0

\* C2: n consecutive running ticks from step s leave currentStep = (s + n) mod
\* stepCount; stepCount of them return to s, and one tick at the last step gives 0.
C2_RunOfTicks ==
    /\ step = (runStart + runLen) % STEP_COUNT
    /\ runLen = STEP_COUNT => step = runStart
    /\ (runLen = 1 /\ runStart = STEP_COUNT - 1) => step = 0

\* C2 witness: nine running ticks from the last step, a whole loop and the
\* wrap, end on step 0 and play a track that is on there.
C2_Witness ==
    /\ lastOp = "tick" /\ ~paused
    /\ runStart = STEP_COUNT - 1 /\ runLen = STEP_COUNT + 1
    /\ step = 0 /\ fired # << >>

\* C3: a clock tick taken while paused leaves currentStep, every track's steps
\* and paused as they were and invokes no trigger.
C3_PausedTickIsNoOp ==
    [][(paused /\ lastOp' = "tick") =>
         /\ step' = step
         /\ Grid(tracks') = Grid(tracks)
         /\ paused' = paused
         /\ fired' = << >>
         /\ ~threw']_vars

\* C3 witness: paused on step 0 with track 1 on at step 1, and the last
\* callback was a tick: running, it would have played track 1.
C3_Witness ==
    /\ paused /\ lastOp = "tick" /\ step = 0
    /\ tracks[2].steps[2]
    /\ fired = << >>

\* The rows and columns of the grid, as the source numbers them.
Rows == 0..(Len(InitialTracks) - 1)
Columns == 0..(STEP_COUNT - 1)

\* steps[column] of track `row`.
Cell(ts, row, column) == ts[row + 1].steps[column + 1]

\* The box of button (column, row) as the specification words it, in half
\* pixels: left = size/2 + column*size*1.5, top = size/2 + row*size*1.5, and the
\* point is inside iff not(x < left or y < top or x > left + size or y > top + size).
BoxLeft(column) == BUTTON_SIZE + 3 * BUTTON_SIZE * column
BoxTop(row) == BUTTON_SIZE + 3 * BUTTON_SIZE * row
InBox(p, column, row) ==
    ~(\/ p.x < BoxLeft(column)
      \/ p.y < BoxTop(row)
      \/ p.x > BoxLeft(column) + 2 * BUTTON_SIZE
      \/ p.y > BoxTop(row) + 2 * BUTTON_SIZE)
InSomeBox(p) == \E row \in Rows, column \in Columns : InBox(p, column, row)

\* The play-bar region: strictly below size/2 + trackCount*size*1.5.
InPlayBar(p) == p.y > BUTTON_SIZE + 3 * BUTTON_SIZE * Len(InitialTracks)

\* prevGrid in the shape of tracks, for Cell.
prevGrid_asTracks == [r \in DOMAIN prevGrid |-> [steps |-> prevGrid[r]]]

\* The step just taken is the click listener run for a click at p.
ClickedAt(p) == lastOp' = "click" /\ lastClick' = p

\* C4: after a running tick currentStep is advanced and fired lists exactly the
\* tracks that are on at the new step, each once, in declaration order.
C4_TickPlaysEveryOnTrack ==
    (lastOp = "tick" /\ ~paused) =>
        /\ runLen >= 1 /\ step = (runStart + runLen) % STEP_COUNT
        /\ \A i \in 1..(Len(fired) - 1) : fired[i] < fired[i + 1]
        /\ {fired[i] : i \in DOMAIN fired} = {row \in Rows : Cell(tracks, row, step)}

\* C5: a play-bar click toggles paused and leaves every step as it was; a click
\* inside a button's box toggles that one step and leaves the others and paused.
C5_ClickFrame ==
    [][\A p \in ClickPoints : ClickedAt(p) =>
         /\ InPlayBar(p) =>
              paused' = ~paused /\ Grid(tracks') = Grid(tracks)
         /\ \A row \in Rows, column \in Columns : InBox(p, column, row) =>
              /\ Cell(tracks', row, column) = ~Cell(tracks, row, column)
              /\ \A r2 \in Rows, c2 \in Columns :
                   <<r2, c2>> # <<row, column>> =>
                       Cell(tracks', r2, c2) = Cell(tracks, r2, c2)
              /\ paused' = paused]_vars

\* C5 witness: running (a play-bar click has toggled paused off), the last
\* callback a click inside button (column 0, row 5) that turned it on.
C5_Witness ==
    /\ lastOp = "click" /\ lastClick = Px(30, 330)
    /\ Cell(tracks, 5, 0) /\ ~Cell(prevGrid_asTracks, 5, 0)
    /\ program = "main" /\ ~paused

\* C6: with no audio context no callback ends in an error, and a running tick
\* still invokes the trigger of every track that is on at the new step.
C6_SilentWithoutAudio ==
    audio = "undefined" =>
        /\ ~threw
        /\ (lastOp = "tick" /\ ~paused) =>
               \A row \in Rows : Cell(tracks, row, step) =>
                   \E i \in DOMAIN fired : fired[i] = row

\* C7: a click that is not in the play bar negates the step of button
\* (column, row) iff the point is inside that button's box, edges included;
\* (30, 30) negates button (0, 0) and (19, 19) negates nothing.
C7_HitTest ==
    [][\A p \in ClickPoints : (ClickedAt(p) /\ ~InPlayBar(p)) =>
         /\ \A row \in Rows, column \in Columns :
              (Cell(tracks', row, column) # Cell(tracks, row, column))
                  <=> InBox(p, column, row)
         /\ p = Px(30, 30) => Cell(tracks', 0, 0) # Cell(tracks, 0, 0)
         /\ p = Px(19, 19) => Grid(tracks') = Grid(tracks)]_vars

\* C7 witness: the last callback was the click at (19.5, 19.5), the very corner
\* of button (0, 0), and it turned the button on.
C7_Witness ==
    /\ lastOp = "click" /\ lastClick = [x |-> BUTTON_SIZE, y |-> BUTTON_SIZE]
    /\ Cell(tracks, 0, 0) /\ ~Cell(prevGrid_asTracks, 0, 0)

\* C8: a click outside every button's box and not in the play bar leaves paused,
\* currentStep and every step as they were and invokes no trigger.
C8_MissIsIgnored ==
    [][\A p \in ClickPoints : (ClickedAt(p) /\ ~InPlayBar(p) /\ ~InSomeBox(p)) =>
         /\ SequencerState' = SequencerState
         /\ fired' = << >> /\ ~threw']_vars

\* C8 witness: running on step 3 with a button on, the last callback was the
\* click at (59, 30), in the gap right of button (0, 0).
C8_Witness ==
    /\ lastOp = "click" /\ lastClick = [x |-> 118, y |-> 60]
    /\ ~InSomeBox(lastClick) /\ ~InPlayBar(lastClick)
    /\ ~paused /\ step = 3 /\ Cell(tracks, 1, 1)

\* C9: clear() leaves every step of every track false, the number of tracks
\* unchanged and the number of steps of each track unchanged.
C9_ClearAll ==
    [][lastOp' = "clear" =>
         /\ \A r \in DOMAIN tracks' : \A c \in DOMAIN tracks'[r].steps :
                tracks'[r].steps[c] = FALSE
         /\ Len(tracks') = Len(tracks)
         /\ \A r \in DOMAIN tracks : Len(tracks'[r].steps) = Len(tracks[r].steps)]_vars

\* C9 witness: the last callback was clear(), run when tracks 0 and 5 were on at
\* step 0; six tracks of eight steps remain.
C9_Witness ==
    /\ lastOp = "clear"
    /\ Cell(prevGrid_asTracks, 0, 0) /\ Cell(prevGrid_asTracks, 5, 0)
    /\ ~Cell(tracks, 0, 0) /\ ~Cell(tracks, 5, 0)
    /\ Len(tracks) = 6 /\ \A r \in DOMAIN tracks : Len(tracks[r].steps) = STEP_COUNT

\* C10: a click at the point of the previous click, inside a button's box, with
\* only ticks and draws since, leaves every step as it was before the previous
\* click.
C10_ClickTwice ==
    [][\A p \in ClickPoints : (ClickedAt(p) /\ lastClick = p /\ InSomeBox(p)) =>
         /\ Grid(tracks') = prevGrid
         /\ \A row \in Rows, column \in Columns : InBox(p, column, row) =>
                Cell(tracks', row, column) = prevGrid[row + 1][column + 1]]_vars

\* C10 witness: the second of two clicks at (30, 30), with a tick or a draw run
\* between them, has turned button (0, 0) off again; the playhead has moved on.
C10_Witness ==
    /\ lastOp = "click" /\ pairKind = "interleaved" /\ lastClick = Px(30, 30)
    /\ ~Cell(tracks, 0, 0) /\ step = 2 /\ Cell(tracks, 5, 0)

\* C11: a draw leaves paused, currentStep and every track's steps as they were.
C11_DrawReadsOnly ==
    [][lastOp' = "draw" => SequencerState' = SequencerState]_vars

\* C11 witness: running on step 3 with button (0, 0) on, the last callback was a
\* draw: it painted that button gold and the playhead square under column 3.
C11_Witness ==
    /\ lastOp = "draw" /\ ~paused /\ step = 3 /\ Cell(tracks, 0, 0)
    /\ drawButton(0, 0, "gold") \in painted
    /\ drawButton(3, Len(tracks), "deeppink") \in painted

\* The live instances of one track.
LiveOf(live, row) == { i \in live : i.row = row }

\* C12: with an audio context, every trigger invocation of a running tick adds
\* one new instance at its full duration, whatever is still playing; a live
\* instance is kept untouched by a click, a draw or clear(), and a tick, paused
\* or not, only brings it TEMPO nearer to its own stop time, where it ends.
C12_IndependentInstances ==
    [][/\ (audio = "running" /\ lastOp' = "tick") =>
            \A row \in Rows :
                /\ (\E k \in DOMAIN fired' : fired'[k] = row) =>
                      \E i \in sounds' :
                          /\ i.row = row
                          /\ i.left = (IF row = 5 THEN 2000 ELSE 1000)
                /\ Cardinality(LiveOf(sounds', row)) =
                      Cardinality({ i \in LiveOf(sounds, row) : i.left > TEMPO })
                        + Cardinality({ k \in DOMAIN fired' : fired'[k] = row })
       /\ \A i \in sounds :
            IF lastOp' = "tick"
            THEN i.left > TEMPO => [i EXCEPT !.left = i.left - TEMPO] \in sounds'
            ELSE i \in sounds']_vars

\* C12 witness: track 0 was triggered on two ticks running within its one
\* second, then the sequencer was paused and clear() run: both instances are
\* still live, 400 and 700 ms from their stop times.
C12_Witness ==
    /\ lastOp = "clear" /\ paused
    /\ Cardinality(LiveOf(sounds, 0)) = 2
    /\ { i.left : i \in LiveOf(sounds, 0) } = {400, 700}

\* The steps that differ between two grids.
Changed(g1, g2) ==
    { <<r, c>> \in (DOMAIN g1) \X (1..STEP_COUNT) : g1[r][c] # g2[r][c] }

\* C13: a point is within at most one button, and never both within a button
\* and off the bottom (in the play bar); a click changes at most one step.
C13_AtMostOneButton ==
    /\ probe.tested =>
         /\ Cardinality(probe.within) <= 1
         /\ ~(probe.offBottom /\ probe.within # {})
    /\ lastOp = "click" => Cardinality(Changed(Grid(tracks), prevGrid)) <= 1

\* C13 witness: the point (58.5, 58.5), the corner of button (0, 0) nearest to
\* button (1, 1), is within button (0, 0) alone, and the click there turned
\* that one step on.
C13_Witness ==
    /\ probe.tested /\ probe.point = [x |-> 117, y |-> 117]
    /\ probe.within = { <<0, 0>> } /\ ~probe.offBottom
    /\ lastOp = "click" /\ Changed(Grid(tracks), prevGrid) = { <<1, 1>> }

\* C14: currentStep changes only in a tick taken while not paused; a click, a
\* draw and clear() leave it as it was; and the first tick after a resume
\* moves it on from the step held at the pause.
C14_OnlyTickMovesStep ==
    [][/\ step' # step => (lastOp' = "tick" /\ ~paused)
       /\ lastOp' \in {"click", "draw", "clear"} => step' = step
       /\ (lastOp' = "tick" /\ ~paused /\ runLen = 0 /\ held # NoStep) =>
              step' = (held + 1) % STEP_COUNT]_vars

\* C14 witness: paused on step 3, then resumed; the last callback is the first
\* tick since, and it has moved the playhead to step 4.
C14_Witness ==
    /\ lastOp = "tick" /\ ~paused /\ runLen = 1
    /\ held = 3 /\ step = 4

\* C15: paused changes in a step iff the step is a click in the play bar.
C15_OnlyPlayBarTogglesPaused ==
    [][(paused' # paused) <=> (lastOp' = "click" /\ InPlayBar(lastClick'))]_vars

\* C15 witness: main.ts, which starts paused, is running with a button on
\* after a click in the play bar, the last callback.
C15_Witness ==
    /\ program = "main" /\ ~paused /\ Cell(tracks, 0, 0)
    /\ lastOp = "click" /\ InPlayBar(lastClick) /\ lastClick = Px(30, 371)

\* C16: in every reachable state there are the six tracks created at startup,
\* each with exactly stepCount steps, and the modulus of the tick's increment is
\* the step count of every track.
C16_FixedShape ==
    /\ Len(tracks) = Len(InitialTracks) /\ Len(tracks) = 6
    /\ \A r \in DOMAIN tracks :
         /\ Len(tracks[r].steps) = STEP_COUNT
         /\ stepModulus(tracks) = Len(tracks[r].steps)

\* C16 witness: part_001, whose modulus is tracks[0].steps.length, after clicks
\* and a clear(): a running tick has wrapped the playhead from step 7 to 0.
C16_Witness ==
    /\ program = "part_001" /\ lastOp = "tick" /\ ~paused
    /\ runStart = STEP_COUNT - 1 /\ step = 0
    /\ lastClick = NoPoint /\ Cell(prevGrid_asTracks, 0, 0) /\ ~Cell(tracks, 0, 0)

\* The top edge of the current-step indicator as draw paints it, in half pixels.
IndicatorTop == drawButton(step, Len(tracks), "deeppink").y

\* C17 as stated: paused is toggled iff the click's y is on or below the top
\* edge of the indicator row.
C17_AsStated ==
    [][(paused' # paused) <=> (lastOp' = "click" /\ lastClick'.y >= IndicatorTop)]_vars

\* C17 as amended: paused is toggled iff the click's y is strictly below the
\* top edge of the indicator row, which is buttonSize/2 + trackCount * buttonSize
\* * 1.5; every track button ends above that edge.
C17_ThresholdIsIndicatorTop ==
    [][/\ (paused' # paused) <=> (lastOp' = "click" /\ lastClick'.y > IndicatorTop)
       /\ IndicatorTop = BUTTON_SIZE + Len(tracks) * BUTTON_SIZE * 3
       /\ \A b \in drawTracks(tracks) : b.y + b.size < IndicatorTop]_vars

\* C17 witness: a click half a pixel below the indicator's top edge, inside the
\* indicator's box, has started the sequencer.
C17_Witness ==
    /\ lastOp = "click" /\ lastClick = probe.point
    /\ probe.point.y = IndicatorTop + 1
    /\ pointWithinButton(probe.point, getButtonPosition(step, Len(tracks)))
    /\ probe.offBottom /\ ~paused

C19_UnlockRetried ==
    [][/\ (unlock.installed /\ unlock' # unlock /\ unlock'.lastOp \in {"resume", "touchend"}) =>
             /\ unlock'.lastOp = "resume"
             /\ unlock'.timeouts = unlock.timeouts + 1
             /\ unlock.state # "running" => unlock'.resuming
       /\ (unlock.installed /\ ~unlock'.installed) =>
             (unlock'.lastOp = "check" /\ unlock'.observed = "running")
       /\ (unlock' # unlock /\ unlock'.lastOp = "check" /\ unlock'.observed # "running") =>
             unlock'.installed = unlock.installed
       /\ ~unlock.installed => ~unlock'.installed]_vars

\* C19 witness: the context started suspended; a first check saw it still
\* suspended and kept the listener, a later one saw it running and removed it,
\* and it has since been interrupted with no listener put back.
C19_Witness ==
    /\ audio = "running" /\ unlock.state = "interrupted"
    /\ unlock.kept /\ unlock.removed
    /\ ~unlock.installed /\ unlock.timeouts = 0
    /\ unlock.lastOp = "touchend"

\* C20: in main.ts, as long as the play bar has not been clicked the sequencer
\* is paused on step 0, the last callback invoked no trigger and started no
\* sound, and no sound is live.
C20_SilentUntilPlay ==
    ~playClicked =>
        /\ paused /\ step = 0
        /\ fired = << >> /\ ~threw /\ started = {} /\ sounds = {}

\* C20 witness: before any play-bar click, three buttons have been switched on
\* (two of them at step 0 and step 1 of row 0, one on the kick), and the timer
\* has ticked since.
C20_Witness ==
    /\ ~playClicked /\ lastOp = "tick"
    /\ Cell(tracks, 0, 0) /\ Cell(tracks, 0, 1) /\ Cell(tracks, 5, 0)

\* C21: a trigger is invoked only by a running tick, and only for a track that
\* is on at the step the tick has moved the playhead onto; a click, a draw or a
\* clear() invokes none.  The first running tick after startup moves the
\* playhead to step 1, and a track's step 0 is not played before the
\* stepCount-th running tick.
C21_TriggersOnlyOnArrival ==
    /\ fired # << >> => (lastOp = "tick" /\ ~paused /\ runLen >= 1)
    /\ \A i \in DOMAIN fired : Cell(tracks, fired[i], step)
    /\ lastOp \in {"click", "draw", "clear"} => (fired = << >> /\ started = {})
    /\ ticksRun < MaxTicks => step = ticksRun % STEP_COUNT
    /\ (fired # << >> /\ step = 0) => ticksRun >= STEP_COUNT

\* C21 witness: in main.ts the button under the playhead (row 0, step 0) was
\* switched on before the play bar was clicked; the eight running ticks since
\* are the first eight after startup, and the eighth is the first to play row 0.
C21_Witness ==
    /\ program = "main" /\ lastOp = "tick" /\ ~paused
    /\ lastClick = Px(30, 371)
    /\ runLen = STEP_COUNT /\ ticksRun = STEP_COUNT
    /\ step = 0 /\ fired = << 0 >>

====
